---- MODULE Spec2Model ----
(***************************************************************************)
(* Model of the editor session (frontend/js/editor.js) and of the tool     *)
(* call boundary (frontend/js/tool_executor.js).                            *)
(*                                                                         *)
(* The session is the module state of editor.js: the openFiles Map (kept   *)
(* here as a sequence of entries in insertion order), activeFilePath, the  *)
(* rendered tab strip, and the part of the Monaco widget the code reads    *)
(* and writes (bound model, readOnly, view state, focus, created and       *)
(* disposed models).  Synchronous code is an operator on a session record; *)
(* every await is a step boundary.                                         *)
(***************************************************************************)
EXTENDS Integers, Sequences, FiniteSets, TLC

\* ------------------------------------------------------------------ bounds
MaxModels == 4        \* text models monaco.editor.createModel may create
MaxPending == 2       \* openFile calls suspended at the content fetch
MaxView == 2           \* view states of the editor widget: DefaultView..MaxView
MaxTextLen == 6       \* characters of a file text

\* ------------------------------------------------------------------ values
NULL == "null"
AllPaths == {"a.js", "d/b", "e/b"}
Paths == {"a.js", "d/b"}          \* the paths the session and tool specifications draw from
ViewNull == 0         \* viewState: null
DefaultView == 1      \* the view state of a model the editor has just been given
Placeholder == 0      \* a model that is not a document buffer (initial / clearEditor text)

\* Characters of file texts: NL is the newline character, BS and n are the
\* backslash and the letter n (the two characters of the JS literal '\\n').
NL == "NL"
BS == "BS"
Chars == {"a", "b", "X", "n", NL, BS}

TextAB == <<"a", NL, "b">>
TextA == <<"a">>
TextX == <<"X">>
Absent == <<"ABSENT">>      \* no such entry on disk
Dir == <<"DIR">>            \* a folder
Folders == {"d", "e"}
Entries == AllPaths \cup Folders

VARIABLES
    openFiles,        \* editor.js:4  Map path -> {handle, name, model, viewState}, insertion order
    activeFilePath,   \* editor.js:5
    tabs,             \* the tab strip as renderTabs last drew it: the paths, in order
    editorModel,      \* the model the widget is bound to (editor.setModel)
    readOnly,         \* editor.updateOptions({readOnly})
    liveView,         \* the widget's live view state (saveViewState / restoreViewState)
    focus,            \* which element has input focus
    models,           \* models[i]: text of the i-th model created
    disposed,         \* ids of the models disposed
    disk,             \* the project folder: path -> text, or Absent
    pendingOpens,     \* openFile calls suspended at fileHandle.getFile()
    pendingRestore,   \* the restoreEditorState call suspended at getFileHandleFromPath
    exec,             \* the execute call: its locals, the audit log entry, the collaborators called
    pendingSave       \* the saveAllOpenFiles call, suspended at the awaits of an entry, and its record

vars == <<openFiles, activeFilePath, tabs, editorModel, readOnly, liveView, focus,
          models, disposed, disk, pendingOpens, pendingRestore, exec, pendingSave>>

\* ------------------------------------------------------- the file system
\* The folder a path lies in (NULL: the project root).
ParentOf(p) == IF p = "d/b" THEN "d" ELSE IF p = "e/b" THEN "e" ELSE NULL
Under(folder) == {p \in AllPaths : ParentOf(p) = folder}
\* The path a file of folder `from` has once the folder is named `to`.
MovedTo(p, to) == IF to = "d" THEN "d/b" ELSE "e/b"

fileExists(d, p) == d[p] # Absent
\* createWritable / write / close through a handle of p (its folder exists).
writeFile(d, p, text) ==
    [q \in Entries |-> IF q = p THEN text
                       ELSE IF q = ParentOf(p) THEN Dir
                       ELSE d[q]]
\* parentHandle.removeEntry(name)
removeFile(d, p) == [d EXCEPT ![p] = Absent]
\* parentHandle.removeEntry(name, {recursive: true})
removeFolder(d, folder) ==
    [q \in Entries |-> IF q = folder \/ q \in Under(folder) THEN Absent ELSE d[q]]
\* FileSystem.renameEntry for a file
renameFile(d, old, new) ==
    [q \in Entries |-> IF q = new THEN d[old]
                       ELSE IF q = old THEN Absent
                       ELSE IF q = ParentOf(new) THEN Dir
                       ELSE d[q]]
\* FileSystem.renameEntry for a folder: its files move with it.
renameFolder(d, old, new) ==
    [q \in Entries |-> IF q = new THEN Dir
                       ELSE IF q = old THEN Absent
                       ELSE IF q \in Under(new) THEN d[CHOOSE o \in Under(old) : MovedTo(o, new) = q]
                       ELSE IF q \in Under(old) THEN Absent
                       ELSE d[q]]

\* ------------------------------------------------------------ Map helpers
Keys(files) == [i \in 1..Len(files) |-> files[i].path]
KeySet(files) == {files[i].path : i \in 1..Len(files)}
Has(files, p) == \E i \in 1..Len(files) : files[i].path = p
IndexOf(files, p) == CHOOSE i \in 1..Len(files) : files[i].path = p
Get(files, p) == files[IndexOf(files, p)]

\* Map.prototype.set: an existing key keeps its place, a new key goes last.
MapSet(files, e) ==
    IF Has(files, e.path)
    THEN [files EXCEPT ![IndexOf(files, e.path)] = e]
    ELSE Append(files, e)

\* Map.prototype.delete
MapDelete(files, p) ==
    SelectSeq(files, LAMBDA e : e.path # p)

NoDuplicateKeys(files) ==
    \A i, j \in 1..Len(files) : files[i].path = files[j].path => i = j

\* -------------------------------------------------------- session record
Sess ==
    [openFiles |-> openFiles, activeFilePath |-> activeFilePath, tabs |-> tabs,
     editorModel |-> editorModel, readOnly |-> readOnly, liveView |-> liveView,
     focus |-> focus, models |-> models, disposed |-> disposed]

SetSess(s) ==
    /\ openFiles' = s.openFiles
    /\ activeFilePath' = s.activeFilePath
    /\ tabs' = s.tabs
    /\ editorModel' = s.editorModel
    /\ readOnly' = s.readOnly
    /\ liveView' = s.liveView
    /\ focus' = s.focus
    /\ models' = s.models
    /\ disposed' = s.disposed

\* renderTabs: one tab per entry of openFiles, in Map order.
renderTabs(s) == [s EXCEPT !.tabs = Keys(s.openFiles)]

\* clearEditor: placeholder model, read-only, no active path, a new empty Map.
\* The tab strip is not redrawn and no model is disposed.
clearEditor(s) ==
    [s EXCEPT !.editorModel = Placeholder,
              !.liveView = DefaultView,
              !.readOnly = TRUE,
              !.activeFilePath = NULL,
              !.openFiles = <<>>]

\* switchTab, lines 130-132: the outgoing document keeps the live view state.
saveOutgoingViewMut(s) == s
saveOutgoingView(s) ==
    IF s.activeFilePath # NULL /\ Has(s.openFiles, s.activeFilePath)
    THEN [s EXCEPT !.openFiles[IndexOf(s.openFiles, s.activeFilePath)].viewState = s.liveView]
    ELSE s

\* switchTab.  With filePath not a key, openFiles.get is undefined and
\* fileData.model throws after activeFilePath has been assigned.
switchTab(s0, filePath, focusEditor) ==
    LET s1 == saveOutgoingView(s0)
        s2 == [s1 EXCEPT !.activeFilePath = filePath]
    IN  IF ~Has(s2.openFiles, filePath)
        THEN s2
        ELSE LET fileData == Get(s2.openFiles, filePath)
                 view == IF fileData.viewState # ViewNull THEN fileData.viewState
                         ELSE IF s2.editorModel = fileData.model THEN s2.liveView
                         ELSE DefaultView
             IN  renderTabs([s2 EXCEPT !.editorModel = fileData.model,
                                       !.liveView = view,
                                       !.focus = IF focusEditor THEN "editor" ELSE s2.focus,
                                       !.readOnly = FALSE])

\* model.dispose(): the model is marked disposed and its text released.
disposeModels(s, ids) ==
    [s EXCEPT !.disposed = @ \cup ids,
              !.models = [i \in 1..Len(s.models) |-> IF i \in ids THEN <<>> ELSE s.models[i]]]

\* closeTab, line 160: openFiles.keys().next().value (NULL when the Map is empty).
nextFileMut(files) == IF Len(files) = 0 THEN NULL ELSE files[Len(files)].path
nextFile(files) == IF Len(files) = 0 THEN NULL ELSE files[1].path

closeTab(s0, filePath) ==
    LET s1 == IF Has(s0.openFiles, filePath)
              THEN disposeModels(s0, {Get(s0.openFiles, filePath).model})
              ELSE s0
        s2 == [s1 EXCEPT !.openFiles = MapDelete(s1.openFiles, filePath)]
    IN  IF s2.activeFilePath = filePath
        THEN LET s3 == [s2 EXCEPT !.activeFilePath = NULL]
                 nf == nextFile(s3.openFiles)
             IN  IF nf # NULL
                 THEN switchTab(s3, nf, TRUE)
                 ELSE renderTabs(clearEditor(s3))
        ELSE renderTabs(s2)

\* monaco.editor.createModel(text): the new model's id is Len(models) + 1.
createModel(s, text) == [s EXCEPT !.models = Append(@, text)]
CanCreateModel == Len(models) < MaxModels

\* openFile, line 104: the path is already open.
openFileAlreadyOpenMut(s, filePath) == FALSE
openFileAlreadyOpen(s, filePath) == Has(s.openFiles, filePath)

\* openFile, lines 111-123, after the content fetch: a new entry with a new model
\* of the fetched text, then switchTab.
openFileInstall(s0, filePath, content, focusEditor) ==
    LET s1 == createModel(s0, content)
        s2 == [s1 EXCEPT !.openFiles =
                  MapSet(@, [path |-> filePath, handle |-> filePath,
                             model |-> Len(s1.models), viewState |-> ViewNull])]
    IN  switchTab(s2, filePath, focusEditor)

\* -------------------------------------------------------------- actions
NoRestore == [running |-> FALSE]
NoExec == [pc |-> "idle"]
NoSave == [running |-> FALSE, i |-> 0, attempted |-> <<>>, written |-> {}]
Idle ==
    /\ pendingOpens = <<>>
    /\ ~pendingRestore.running
    /\ exec.pc = "idle"
    /\ ~pendingSave.running

InitWith(d) ==
    /\ openFiles = <<>>
    /\ activeFilePath = NULL
    /\ tabs = <<>>
    /\ editorModel = Placeholder
    /\ readOnly = TRUE
    /\ liveView = DefaultView
    /\ focus = "none"
    /\ models = <<>>
    /\ disposed = {}
    /\ disk = d
    /\ pendingOpens = <<>>
    /\ pendingRestore = NoRestore
    /\ exec = NoExec
    /\ pendingSave = NoSave

\* A project folder in which every file exists, in folders d and e.
DiskFull ==
    [p \in Entries |-> IF p \in Folders THEN Dir ELSE IF p = "a.js" THEN TextAB ELSE TextA]
\* A project folder holding a.js and d/b.
Disk0 ==
    [p \in Entries |-> IF p = "a.js" THEN TextAB
                       ELSE IF p = "d/b" THEN TextA
                       ELSE IF p = "d" THEN Dir ELSE Absent]

Init == InitWith(DiskFull)

\* openFile up to its first await: an open path is activated at once; otherwise
\* the call suspends at fileHandle.getFile().
OpenFileCall(filePath, focusEditor) ==
    IF openFileAlreadyOpen(Sess, filePath)
    THEN /\ SetSess(switchTab(Sess, filePath, focusEditor))
         /\ UNCHANGED <<disk, pendingOpens, pendingRestore, exec, pendingSave>>
    ELSE /\ Len(pendingOpens) < MaxPending
         /\ pendingOpens' = Append(pendingOpens, [path |-> filePath, focus |-> focusEditor])
         /\ UNCHANGED <<openFiles, activeFilePath, tabs, editorModel, readOnly, liveView,
                        focus, models, disposed, disk, pendingRestore, exec, pendingSave>>

RemoveAt(seq, i) == SubSeq(seq, 1, i - 1) \o SubSeq(seq, i + 1, Len(seq))

\* openFile resumed with the file's text; a missing file rejects getFile() and
\* the catch of line 124 only logs.
OpenFileResume(i) ==
    LET call == pendingOpens[i]
    IN  /\ pendingOpens' = RemoveAt(pendingOpens, i)
        /\ IF disk[call.path] = Absent
           THEN UNCHANGED <<openFiles, activeFilePath, tabs, editorModel, readOnly,
                            liveView, focus, models, disposed>>
           ELSE /\ CanCreateModel
                /\ SetSess(openFileInstall(Sess, call.path, disk[call.path], call.focus))
        /\ UNCHANGED <<disk, pendingRestore, exec, pendingSave>>

\* A click on a tab of the strip as last drawn (editor.js:29, 92, 146).
TabClick(filePath) ==
    /\ \E i \in 1..Len(tabs) : tabs[i] = filePath
    /\ SetSess(switchTab(Sess, filePath, TRUE))
    /\ UNCHANGED <<disk, pendingOpens, pendingRestore, exec, pendingSave>>

\* A click on a tab's close button (editor.js:34-37, 93, 147).
TabClose(filePath) ==
    /\ \E i \in 1..Len(tabs) : tabs[i] = filePath
    /\ SetSess(closeTab(Sess, filePath))
    /\ UNCHANGED <<disk, pendingOpens, pendingRestore, exec, pendingSave>>

ClearEditor ==
    /\ SetSess(clearEditor(Sess))
    /\ UNCHANGED <<disk, pendingOpens, pendingRestore, exec, pendingSave>>

\* ------------------------------------------------ snapshots and restore
\* An editor state as getEditorState returns it: the entries in tab order and
\* the active path.  nil marks the JS value null handed in as the state.
NilState == [nil |-> TRUE, openFiles |-> <<>>, activeFile |-> NULL]

Snap(paths, active) ==
    [nil |-> FALSE,
     openFiles |-> [i \in 1..Len(paths) |->
                      [path |-> paths[i], content |-> TextX,
                       viewState |-> IF paths[i] = active THEN DefaultView ELSE ViewNull]],
     activeFile |-> active]

SnapshotInputs ==
    {NilState, Snap(<<>>, NULL), Snap(<<"a.js">>, "a.js"),
     Snap(<<"d/b", "a.js">>, "a.js"), Snap(<<"a.js", "d/b">>, "d/b")}

SnapPaths(state) == {state.openFiles[i].path : i \in 1..Len(state.openFiles)}

\* getEditorState, lines 245-257: the snapshot built from the Map, in Map order
\* (lines 241-243, the live view state kept first, are saveOutgoingView).
getEditorStateMut(s) ==
    [nil |-> FALSE,
     openFiles |-> [i \in 1..Len(s.openFiles) |->
                      [path |-> s.openFiles[i].path,
                       content |-> s.models[s.openFiles[i].model],
                       viewState |-> s.openFiles[i].viewState]],
     activeFile |-> NULL]
getEditorState(s) ==
    [nil |-> FALSE,
     openFiles |-> [i \in 1..Len(s.openFiles) |->
                      [path |-> s.openFiles[i].path,
                       content |-> s.models[s.openFiles[i].model],
                       viewState |-> s.openFiles[i].viewState]],
     activeFile |-> s.activeFilePath]

\* restoreCheckpointState, lines 294-302: every current model is disposed, every
\* entry deleted, activeFilePath reset.  The tab strip is not redrawn here.
discardAllMut(s) == [s EXCEPT !.activeFilePath = NULL]
discardAll(s) ==
    [disposeModels(s, {s.openFiles[i].model : i \in 1..Len(s.openFiles)})
        EXCEPT !.openFiles = <<>>, !.activeFilePath = NULL]

\* restoreEditorState, lines 266-275: one snapshot entry installed over whatever
\* the Map holds for its path; the text is the snapshot's.
restoreInstall(s0, fileData) ==
    LET s1 == createModel(s0, fileData.content)
    IN  [s1 EXCEPT !.openFiles =
            MapSet(@, [path |-> fileData.path, handle |-> fileData.path,
                       model |-> Len(s1.models), viewState |-> fileData.viewState])]

\* restoreEditorState, lines 281-290.
restoreActivate(s, state) ==
    IF state.activeFile # NULL /\ Has(s.openFiles, state.activeFile)
    THEN switchTab(s, state.activeFile, TRUE)
    ELSE IF Len(s.openFiles) > 0
         THEN switchTab(s, s.openFiles[1].path, TRUE)
         ELSE renderTabs(s)

\* getFileHandleFromPath(root, path, {create: true}): the file exists afterwards.
createIfAbsent(d, path) == IF d[path] = Absent THEN writeFile(d, path, <<>>) ELSE d

\* restoreEditorState (discard = FALSE) or restoreCheckpointState (discard = TRUE)
\* up to the first await.
RestoreCall(state, discard) ==
    /\ ~pendingRestore.running
    /\ LET s0 == IF discard THEN discardAll(Sess) ELSE Sess
       IN  IF state.nil
           THEN /\ SetSess(s0)
                /\ pendingRestore' = NoRestore
           ELSE IF Len(state.openFiles) = 0
           THEN /\ SetSess(restoreActivate(s0, state))
                /\ pendingRestore' = NoRestore
           ELSE /\ SetSess(s0)
                /\ pendingRestore' = [running |-> TRUE, discard |-> discard, state |-> state,
                                      i |-> 1, acquired |-> {}]
    /\ UNCHANGED <<disk, pendingOpens, exec, pendingSave>>

\* The loop body for entry i after its await (ok: getFileHandleFromPath resolved;
\* otherwise it rejected and the catch of line 276 logs), and, after the last
\* entry, the activation that follows the loop in the same turn.
RestoreResume(ok) ==
    /\ pendingRestore.running
    /\ LET r == pendingRestore
           fileData == r.state.openFiles[r.i]
           s1 == IF ok THEN restoreInstall(Sess, fileData) ELSE Sess
           last == r.i = Len(r.state.openFiles)
       IN  /\ ok => CanCreateModel
           /\ disk' = IF ok THEN createIfAbsent(disk, fileData.path) ELSE disk
           /\ SetSess(IF last THEN restoreActivate(s1, r.state) ELSE s1)
           /\ pendingRestore' =
                 IF last THEN NoRestore
                 ELSE [r EXCEPT !.i = @ + 1,
                                !.acquired = IF ok THEN @ \cup {fileData.path} ELSE @]
    /\ UNCHANGED <<pendingOpens, exec, pendingSave>>

\* The user scrolls or moves the cursor: the live view state of the widget
\* becomes another one.
Views == DefaultView..MaxView
Scroll(v) ==
    /\ editorModel # Placeholder
    /\ liveView # v
    /\ liveView' = v
    /\ UNCHANGED <<openFiles, activeFilePath, tabs, editorModel, readOnly, focus, models,
                   disposed, disk, pendingOpens, pendingRestore, exec, pendingSave>>

\* The user types into the editor: the bound model, unless the widget is
\* read-only or shows the placeholder, holds the typed text.
Edit(text) ==
    /\ editorModel # Placeholder
    /\ ~readOnly
    /\ models[editorModel] # text
    /\ models' = [models EXCEPT ![editorModel] = text]
    /\ UNCHANGED <<openFiles, activeFilePath, tabs, editorModel, readOnly, liveView, focus,
                   disposed, disk, pendingOpens, pendingRestore, exec, pendingSave>>

\* saveAllOpenFiles, lines 195-197: the catch inside the loop body, after which
\* the loop goes on to the next entry.
nextSaveIndexMut(s, i, ok) == IF ok THEN i + 1 ELSE Len(s.openFiles) + 1
nextSaveIndex(s, i, ok) == i + 1

\* saveAllOpenFiles up to the first await (createWritable of the first entry);
\* with nothing open the loop body never runs.
SaveAllCall ==
    /\ pendingSave' = IF Len(openFiles) = 0 THEN NoSave
                      ELSE [running |-> TRUE, i |-> 1, attempted |-> <<>>, written |-> {}]
    /\ UNCHANGED <<openFiles, activeFilePath, tabs, editorModel, readOnly, liveView, focus,
                   models, disposed, disk, pendingOpens, pendingRestore, exec>>

\* The loop body for entry i: createWritable, write(model.getValue()), close
\* (ok), or one of them rejecting, which the catch of line 195 logs; the file
\* is replaced when close resolves.
SaveAllResume(ok) ==
    /\ pendingSave.running
    /\ LET r == pendingSave
           fileData == openFiles[r.i]
           next == nextSaveIndex(Sess, r.i, ok)
       IN  /\ disk' = IF ok THEN writeFile(disk, fileData.handle, models[fileData.model])
                      ELSE disk
           /\ pendingSave' = [running |-> next <= Len(openFiles),
                              i |-> next,
                              attempted |-> Append(r.attempted, fileData.path),
                              written |-> IF ok THEN r.written \cup {fileData.path}
                                          ELSE r.written]
    /\ UNCHANGED <<openFiles, activeFilePath, tabs, editorModel, readOnly, liveView, focus,
                   models, disposed, pendingOpens, pendingRestore, exec>>

\* ------------------------------------------------------- tool_executor.js
\* String.prototype.split(sep) for a non-empty separator.
RECURSIVE splitScan(_, _, _, _, _)
splitScan(t, sep, i, cur, acc) ==
    IF i > Len(t) THEN Append(acc, cur)
    ELSE IF i + Len(sep) - 1 <= Len(t) /\ SubSeq(t, i, i + Len(sep) - 1) = sep
         THEN splitScan(t, sep, i + Len(sep), <<>>, Append(acc, cur))
         ELSE splitScan(t, sep, i + 1, Append(cur, t[i]), acc)
split(t, sep) == splitScan(t, sep, 1, <<>>, <<>>)

\* Array.prototype.join(sep)
RECURSIVE join(_, _)
join(lines, sep) ==
    IF Len(lines) = 0 THEN <<>>
    ELSE IF Len(lines) = 1 THEN lines[1]
    ELSE lines[1] \o sep \o join(Tail(lines), sep)

\* Array.prototype.splice(start, 0, item): a start past the end appends.
splice(lines, start, item) ==
    LET k == IF start > Len(lines) THEN Len(lines) ELSE start
    IN  SubSeq(lines, 1, k) \o <<item>> \o SubSeq(lines, k + 1, Len(lines))

\* The separator the source writes, '\\n': a backslash and the letter n.
SeparatorMut == <<NL>>
Separator == <<BS, "n">>

\* insert_content, lines 254-260.
insertionPoint(line_number) == IF line_number - 1 > 0 THEN line_number - 1 ELSE 0
insertContent(originalContent, line_number, content) ==
    join(splice(split(originalContent, Separator), insertionPoint(line_number), content),
         Separator)

\* read_file, lines 49-52: the content field of the result.
MAX_LENGTH == 30000
TruncationSuffix == <<NL, NL, "... (file content truncated because it was too long)">>
readFileContentMut(content) ==
    IF Len(content) >= MAX_LENGTH
    THEN SubSeq(content, 1, MAX_LENGTH - 1) \o TruncationSuffix
    ELSE content
readFileContent(content) ==
    IF Len(content) > MAX_LENGTH
    THEN SubSeq(content, 1, MAX_LENGTH) \o TruncationSuffix
    ELSE content

\* executeTool, lines 12-17.
RootRequired ==
    {"create_file", "read_file", "search_code", "get_project_structure",
     "delete_file", "build_or_update_codebase_index", "query_codebase",
     "create_folder", "delete_folder", "rename_folder", "rewrite_file",
     "format_code", "analyze_code", "rename_file", "insert_content"}
\* executeTool, line 22.
CheckpointToolsMut ==
    {"create_file", "delete_file", "rewrite_file", "rename_file", "create_folder",
     "delete_folder", "rename_folder", "insert_content", "read_file"}
CheckpointTools ==
    {"create_file", "delete_file", "rewrite_file", "rename_file", "create_folder",
     "delete_folder", "rename_folder", "insert_content"}
\* execute, line 303.
DiagnosticTools == {"rewrite_file", "insert_content", "replace_selected_text"}
\* The tools that await UI.refreshFileTree.
RefreshTools ==
    {"create_file", "delete_file", "delete_folder", "rename_folder", "rename_file",
     "create_folder", "run_terminal_command"}

NoArg == "-"
Args(filename, content, line_number, target) ==
    [filename |-> filename, content |-> content, line_number |-> line_number,
     target |-> target]
LineNumbers == {0, 1, 2}

\* The tool calls drawn: every case of the switch, and a name it does not know.
\* The file tools are drawn on ToolPaths.
ToolPaths == {"a.js"}
ToolInputs ==
    {[name |-> n, args |-> Args(f, <<>>, 0, NoArg)] :
        n \in {"read_file", "delete_file", "format_code", "get_file_history"},
        f \in ToolPaths}
    \cup {[name |-> "analyze_code", args |-> Args(f, <<>>, 0, NoArg)] : f \in Paths}
    \cup {[name |-> n, args |-> Args(f, TextX, 0, NoArg)] :
        n \in {"create_file", "rewrite_file"}, f \in ToolPaths}
    \cup {[name |-> "insert_content", args |-> Args(f, TextX, k, NoArg)] :
        f \in ToolPaths, k \in LineNumbers}
    \cup {[name |-> "rename_file", args |-> Args("d/b", <<>>, 0, "e/b")],
          [name |-> "rename_folder", args |-> Args("d", <<>>, 0, "e")],
          [name |-> "delete_folder", args |-> Args("e", <<>>, 0, NoArg)],
          [name |-> "create_folder", args |-> Args("d", <<>>, 0, NoArg)],
          [name |-> "replace_selected_text", args |-> Args(NoArg, TextX, 0, NoArg)]}
    \cup {[name |-> n, args |-> Args(NoArg, <<>>, 0, NoArg)] :
        n \in {"get_project_structure", "read_url", "duckduckgo_search", "search_code",
               "get_open_file_content", "get_selected_text", "run_terminal_command",
               "build_or_update_codebase_index", "query_codebase", "unknown_tool"}}

\* What a collaborator may do to one dispatch: nothing, or fail at the named call.
FailModes(name) ==
    {"none"}
    \cup (IF name \in RootRequired \ {"query_codebase", "build_or_update_codebase_index"}
          THEN {"fs"} ELSE {})
    \cup (IF name \in RefreshTools THEN {"refresh"} ELSE {})
    \cup (IF name \in {"read_url", "duckduckgo_search", "run_terminal_command",
                       "get_file_history"} THEN {"net"} ELSE {})
    \cup (IF name \in {"build_or_update_codebase_index", "query_codebase"}
          THEN {"indexer", "db"} ELSE {})
    \cup (IF name = "analyze_code" THEN {"parse"} ELSE {})

\* openFile awaited to its end with nothing in between.
openFileAwaited(s, d, filePath, focusEditor) ==
    IF openFileAlreadyOpen(s, filePath) THEN switchTab(s, filePath, focusEditor)
    ELSE IF ~fileExists(d, filePath) THEN s
    ELSE openFileInstall(s, filePath, d[filePath], focusEditor)

\* document.getElementById('chat-input').focus()
focusChat(s) == [s EXCEPT !.focus = "chat"]

\* fileData.model.setValue(text), lines 216-219 and 266-269.
setValueIfOpenMut(s, filePath, text) == s
setValueIfOpen(s, filePath, text) ==
    IF Has(s.openFiles, filePath)
    THEN [s EXCEPT !.models[Get(s.openFiles, filePath).model] = text]
    ELSE s

\* A case of the switch ends by returning a result or by throwing.
Returned(s, d, calls) == [sess |-> s, disk |-> d, thrown |-> FALSE, msg |-> "none", calls |-> calls]
Thrown(s, d, msg, calls) == [sess |-> s, disk |-> d, thrown |-> TRUE, msg |-> msg, calls |-> calls]

\* UI.refreshFileTree awaited inside the case: its rejection is the case's.
afterRefreshMut(fail, s, d, calls, rest) == rest
afterRefresh(fail, s, d, calls, rest) ==
    IF fail = "refresh"
    THEN Thrown(s, d, "refresh failed", calls \cup {"refreshFileTree"})
    ELSE rest

\* executeTool, the switch of lines 39-278.  sel: some text is selected.
toolBody(name, a, s, d, fail, sel) ==
    LET f == a.filename
        fs == {"fs"}
        rf == {"fs", "refreshFileTree"}
        ed == {"fs", "editor"}
    IN
    CASE name \in {"get_project_structure", "search_code"} ->
           IF fail = "fs" THEN Thrown(s, d, "fs failed", fs) ELSE Returned(s, d, fs)
      [] name = "read_file" ->
           IF fail = "fs" \/ ~fileExists(d, f) THEN Thrown(s, d, "not found", fs)
           ELSE Returned(focusChat(openFileAwaited(s, d, f, FALSE)), d, ed)
      [] name \in {"read_url", "duckduckgo_search", "get_file_history"} ->
           IF fail = "net" THEN Thrown(s, d, "request failed", {"net"})
           ELSE Returned(s, d, {"net"})
      [] name = "create_file" ->
           IF fail = "fs" THEN Thrown(s, d, "fs failed", fs)
           ELSE LET d1 == writeFile(d, f, a.content)
                IN  afterRefresh(fail, s, d1, fs,
                       Returned(focusChat(openFileAwaited(s, d1, f, FALSE)), d1,
                                rf \cup {"editor"}))
      [] name = "delete_file" ->
           IF fail = "fs" \/ ~fileExists(d, f) THEN Thrown(s, d, "not found", fs)
           ELSE LET d1 == removeFile(d, f)
                    s1 == IF Has(s.openFiles, f) THEN closeTab(s, f) ELSE s
                IN  afterRefresh(fail, s1, d1, ed, Returned(s1, d1, rf \cup {"editor"}))
      [] name = "delete_folder" ->
           IF fail = "fs" \/ ~fileExists(d, f) THEN Thrown(s, d, "not found", fs)
           ELSE LET d1 == removeFolder(d, f)
                IN  afterRefresh(fail, s, d1, fs, Returned(s, d1, rf))
      [] name = "rename_folder" ->
           IF fail = "fs" \/ ~fileExists(d, f) THEN Thrown(s, d, "not found", fs)
           ELSE LET d1 == renameFolder(d, f, a.target)
                IN  afterRefresh(fail, s, d1, fs, Returned(s, d1, rf))
      [] name = "rename_file" ->
           IF fail = "fs" \/ ~fileExists(d, f) THEN Thrown(s, d, "not found", fs)
           ELSE LET d1 == renameFile(d, f, a.target)
                    s1 == IF Has(s.openFiles, f)
                          THEN focusChat(openFileAwaited(closeTab(s, f), d1, a.target, FALSE))
                          ELSE s
                IN  afterRefresh(fail, s, d1, fs, Returned(s1, d1, rf \cup {"editor"}))
      [] name = "create_folder" ->
           IF fail = "fs" THEN Thrown(s, d, "fs failed", fs)
           ELSE LET d1 == [d EXCEPT ![f] = Dir]
                IN  afterRefresh(fail, s, d1, fs, Returned(s, d1, rf))
      [] name = "get_open_file_content" ->
           IF s.activeFilePath = NULL \/ ~Has(s.openFiles, s.activeFilePath)
           THEN Thrown(s, d, "no file open", {"editor"})
           ELSE Returned(s, d, {"editor"})
      [] name = "get_selected_text" ->
           IF ~sel THEN Thrown(s, d, "no selection", {"editor"})
           ELSE Returned(s, d, {"editor"})
      [] name = "replace_selected_text" ->
           IF ~sel THEN Thrown(s, d, "no selection", {"editor"})
           ELSE Returned(IF s.editorModel # Placeholder /\ ~s.readOnly
                         THEN [s EXCEPT !.models[s.editorModel] = a.content]
                         ELSE s,
                         d, {"editor"})
      [] name = "run_terminal_command" ->
           IF fail = "net" THEN Thrown(s, d, "request failed", {"net"})
           ELSE afterRefresh(fail, s, d, {"net"}, Returned(s, d, {"net", "refreshFileTree"}))
      [] name = "build_or_update_codebase_index" ->
           IF fail = "indexer" THEN Thrown(s, d, "index failed", {"ui", "indexer"})
           ELSE IF fail = "db" THEN Thrown(s, d, "db failed", {"ui", "indexer", "db"})
           ELSE Returned(s, d, {"ui", "indexer", "db"})
      [] name = "query_codebase" ->
           IF fail = "db" THEN Thrown(s, d, "no index", {"db"})
           ELSE IF fail = "indexer" THEN Thrown(s, d, "query failed", {"db", "indexer"})
           ELSE Returned(s, d, {"db", "indexer"})
      [] name = "rewrite_file" ->
           IF fail = "fs" \/ ~fileExists(d, f) THEN Thrown(s, d, "not found", fs)
           ELSE LET d1 == writeFile(d, f, a.content)
                    s1 == setValueIfOpen(s, f, a.content)
                IN  Returned(focusChat(openFileAwaited(s1, d1, f, FALSE)), d1, ed)
      [] name = "format_code" ->
           IF fail = "fs" \/ ~fileExists(d, f) THEN Thrown(s, d, "not found", fs)
           ELSE Returned(s, d, ed)
      [] name = "analyze_code" ->
           IF f # "a.js" THEN Thrown(s, d, "only .js files", {})
           ELSE IF fail = "fs" \/ ~fileExists(d, f) THEN Thrown(s, d, "not found", fs)
           ELSE IF fail = "parse" THEN Thrown(s, d, "parse error", fs)
           ELSE Returned(s, d, fs)
      [] name = "insert_content" ->
           IF fail = "fs" \/ ~fileExists(d, f) THEN Thrown(s, d, "not found", fs)
           ELSE LET newContent == insertContent(d[f], a.line_number, a.content)
                    d1 == writeFile(d, f, newContent)
                    s1 == setValueIfOpen(s, f, newContent)
                IN  Returned(focusChat(openFileAwaited(s1, d1, f, FALSE)), d1, ed)
      [] OTHER -> Thrown(s, d, "unknown tool", {})

\* The response handed to the model: no error, the guard's fixed error, or the
\* thrown message wrapped by execute; warning: the diagnostics block was appended.
NoProjectMsg == "No project folder is open"
Response(error, wrapped, warning) ==
    [error |-> error, wrapped |-> wrapped, warning |-> warning]

\* The try/catch of lines 23-36 around the capture and the save: a rejected
\* DbManager.saveCheckpoint is logged there and goes no further.
interceptionThrowsMut(cpOk) == ~cpOk
interceptionThrows(cpOk) == FALSE

\* execute up to the first await inside executeTool: the log entry is recorded,
\* the guard of lines 11-20 answers, or the checkpoint interception of lines
\* 22-37 runs.  logOk: UI.appendToolLog returns (it throws otherwise); cpOk:
\* DbManager.saveCheckpoint resolves (it rejects otherwise).
ExecStart(call, root, logOk, cpOk) ==
    LET trigger == call.name \in CheckpointTools
        attempted == trigger /\ Len(openFiles) > 0
        base == [pc |-> "tool", name |-> call.name, args |-> call.args, root |-> root,
                 isSuccess |-> TRUE, result |-> Response("none", FALSE, FALSE),
                 logEntry |-> "pending", finalized |-> 0, calls |-> {"appendToolLog"},
                 cp |-> "none", checkpoint |-> NilState, payload |-> <<>>]
    IN  /\ call.name = "insert_content" /\ fileExists(disk, call.args.filename)
             => Len(disk[call.args.filename]) + Len(call.args.content) + 2 <= MaxTextLen
        /\ IF ~logOk
           THEN /\ exec' = [base EXCEPT !.pc = "escaped", !.logEntry = "none"]
                /\ UNCHANGED <<openFiles, activeFilePath, tabs, editorModel, readOnly,
                               liveView, focus, models, disposed>>
           ELSE IF ~root /\ call.name \in RootRequired
           THEN /\ exec' = [base EXCEPT !.pc = "after",
                                        !.result = Response(NoProjectMsg, FALSE, FALSE)]
                /\ UNCHANGED <<openFiles, activeFilePath, tabs, editorModel, readOnly,
                               liveView, focus, models, disposed>>
           ELSE IF trigger
           THEN /\ SetSess(saveOutgoingView(Sess))
                /\ LET e1 == [base EXCEPT
                                !.calls = @ \cup {"getEditorState"}
                                            \cup (IF attempted THEN {"saveCheckpoint"} ELSE {}),
                                !.cp = IF ~attempted THEN "none"
                                       ELSE IF cpOk THEN "saved" ELSE "failed",
                                !.checkpoint =
                                    IF attempted /\ cpOk
                                    THEN getEditorState(saveOutgoingView(Sess))
                                    ELSE @]
                   IN  exec' = IF attempted /\ interceptionThrows(cpOk)
                               THEN [e1 EXCEPT !.pc = "after", !.isSuccess = FALSE,
                                               !.result = Response("checkpoint failed",
                                                                   TRUE, FALSE)]
                               ELSE e1
           ELSE /\ exec' = base
                /\ UNCHANGED <<openFiles, activeFilePath, tabs, editorModel, readOnly,
                               liveView, focus, models, disposed>>
        /\ UNCHANGED <<disk, pendingOpens, pendingRestore, pendingSave>>

\* execute, the catch of lines 295-300: the call is marked failed and the
\* thrown message, wrapped, becomes the response.
catchErrorMut(e, msg) == [e EXCEPT !.result = Response(msg, TRUE, FALSE)]
catchError(e, msg) ==
    [e EXCEPT !.isSuccess = FALSE, !.result = Response(msg, TRUE, FALSE)]

\* The case of the switch, and the try/catch of execute around it (lines 293-300).
ExecTool(fail, sel) ==
    /\ exec.pc = "tool"
    /\ fail \in FailModes(exec.name)
    /\ LET r == toolBody(exec.name, exec.args, Sess, disk, fail, sel)
           e1 == [exec EXCEPT !.pc = "after", !.calls = @ \cup r.calls,
                              !.payload = IF ~r.thrown /\ exec.name = "read_file"
                                          THEN readFileContent(disk[exec.args.filename])
                                          ELSE @]
       IN  /\ Len(r.sess.models) <= MaxModels
           /\ SetSess(r.sess)
           /\ disk' = r.disk
           /\ exec' = IF r.thrown THEN catchError(e1, r.msg) ELSE e1
    /\ UNCHANGED <<pendingOpens, pendingRestore, pendingSave>>

\* execute, lines 312-315: with markers of error severity the warning text is
\* appended to the message of the result, and nothing else changes.
appendWarningMut(e, errors) ==
    [e EXCEPT !.result.warning = errors, !.isSuccess = IF errors THEN FALSE ELSE @]
appendWarning(e, errors) == [e EXCEPT !.result.warning = errors]

\* execute, lines 303-322: the diagnostics check after the settle delay, then
\* the log entry is finalized and the response returned.  markersOk: the marker
\* query returns; hasErrors: it reports a marker of error severity; logOk:
\* UI.updateToolLog returns.
ExecAfter(markersOk, hasErrors, logOk) ==
    /\ exec.pc = "after"
    /\ LET diag == exec.isSuccess /\ exec.name \in DiagnosticTools
           filePath == IF exec.args.filename # NoArg THEN exec.args.filename
                       ELSE activeFilePath
           query == diag /\ filePath # NULL
           queried == query /\ Has(openFiles, filePath)
           e1 == appendWarning(
                   [exec EXCEPT !.calls = @ \cup (IF diag /\ exec.args.filename = NoArg
                                                  THEN {"getActiveFilePath"} ELSE {})
                                            \cup (IF query THEN {"getModelMarkers"} ELSE {})],
                   queried /\ hasErrors)
       IN  IF queried /\ ~markersOk
           THEN exec' = [e1 EXCEPT !.pc = "escaped", !.result.warning = FALSE]
           ELSE IF ~logOk
           THEN exec' = [e1 EXCEPT !.pc = "escaped", !.calls = @ \cup {"updateToolLog"}]
           ELSE exec' = [e1 EXCEPT !.pc = "returned",
                                   !.calls = @ \cup {"updateToolLog"},
                                   !.logEntry = IF exec.isSuccess THEN "Success" ELSE "Error",
                                   !.finalized = @ + 1]
    /\ UNCHANGED <<openFiles, activeFilePath, tabs, editorModel, readOnly, liveView, focus,
                   models, disposed, disk, pendingOpens, pendingRestore, pendingSave>>

\* The caller of execute has the response (or the rejection): the call is over.
ExecDone ==
    /\ exec.pc \in {"returned", "escaped"}
    /\ exec' = NoExec
    /\ UNCHANGED <<openFiles, activeFilePath, tabs, editorModel, readOnly, liveView, focus,
                   models, disposed, disk, pendingOpens, pendingRestore, pendingSave>>

\* One operation at a time: nothing starts while another is suspended.
Next ==
    \/ \E p \in Paths, f \in BOOLEAN : Idle /\ OpenFileCall(p, f)
    \/ \E p \in Paths : Idle /\ TabClick(p)
    \/ \E p \in Paths : Idle /\ TabClose(p)
    \/ Idle /\ ClearEditor
    \/ \E st \in SnapshotInputs, d \in BOOLEAN : Idle /\ RestoreCall(st, d)
    \/ \E i \in 1..Len(pendingOpens) : OpenFileResume(i)
    \/ \E ok \in BOOLEAN : RestoreResume(ok)

Spec == Init /\ [][Next]_vars

\* Operations overlap at their awaits.
NextAsync ==
    \/ \E p \in Paths, f \in BOOLEAN : OpenFileCall(p, f)
    \/ \E p \in Paths : TabClick(p)
    \/ \E p \in Paths : TabClose(p)
    \/ ClearEditor
    \/ \E st \in SnapshotInputs, d \in BOOLEAN : RestoreCall(st, d)
    \/ \E i \in 1..Len(pendingOpens) : OpenFileResume(i)
    \/ \E ok \in BOOLEAN : RestoreResume(ok)

SpecAsync == Init /\ [][NextAsync]_vars

\* The tab strip alone, over three paths.
NextTabs ==
    \/ \E p \in AllPaths : Idle /\ OpenFileCall(p, TRUE)
    \/ \E p \in AllPaths : Idle /\ TabClick(p)
    \/ \E p \in AllPaths : Idle /\ TabClose(p)
    \/ Idle /\ ClearEditor
    \/ \E i \in 1..Len(pendingOpens) : OpenFileResume(i)

SpecTabs == Init /\ [][NextTabs]_vars

\* Tool calls, one at a time, against the project folder Disk0.
NextTool ==
    \/ \E c \in ToolInputs, root \in BOOLEAN, logOk \in BOOLEAN, cpOk \in BOOLEAN :
          Idle /\ ExecStart(c, root, logOk, cpOk)
    \/ \E fail \in {"none", "fs", "refresh", "net", "db", "indexer", "parse"},
          sel \in BOOLEAN : ExecTool(fail, sel)
    \/ \E markersOk \in BOOLEAN, hasErrors \in BOOLEAN, logOk \in BOOLEAN :
          ExecAfter(markersOk, hasErrors, logOk)
    \/ ExecDone

SpecTool == InitWith(Disk0) /\ [][NextTool]_vars

\* The tab strip over three paths, with the user scrolling.
NextView ==
    \/ \E p \in AllPaths : Idle /\ OpenFileCall(p, TRUE)
    \/ \E i \in 1..Len(pendingOpens) : OpenFileResume(i)
    \/ \E p \in AllPaths : Idle /\ TabClick(p)
    \/ \E p \in AllPaths : Idle /\ TabClose(p)
    \/ \E v \in Views : Idle /\ Scroll(v)

SpecView == Init /\ [][NextView]_vars

\* Opening, editing and saving, one operation at a time.
NextSave ==
    \/ \E p \in Paths : Idle /\ OpenFileCall(p, TRUE)
    \/ \E i \in 1..Len(pendingOpens) : OpenFileResume(i)
    \/ \E p \in Paths : Idle /\ TabClick(p)
    \/ \E p \in Paths : Idle /\ TabClose(p)
    \/ Idle /\ Edit(TextX)
    \/ Idle /\ SaveAllCall
    \/ \E ok \in BOOLEAN : SaveAllResume(ok)

SpecSave == Init /\ [][NextSave]_vars

\* Tool calls on the folder d and the file d/b in it, d/b being opened by
\* read_file.
FolderInputs ==
    {[name |-> "read_file", args |-> Args("d/b", <<>>, 0, NoArg)],
     [name |-> "create_file", args |-> Args("d/b", TextX, 0, NoArg)],
     [name |-> "delete_file", args |-> Args("d/b", <<>>, 0, NoArg)],
     [name |-> "rename_file", args |-> Args("d/b", <<>>, 0, "e/b")],
     [name |-> "rename_file", args |-> Args("e/b", <<>>, 0, "d/b")],
     [name |-> "delete_folder", args |-> Args("d", <<>>, 0, NoArg)],
     [name |-> "delete_folder", args |-> Args("e", <<>>, 0, NoArg)],
     [name |-> "rename_folder", args |-> Args("d", <<>>, 0, "e")],
     [name |-> "rename_folder", args |-> Args("e", <<>>, 0, "d")]}

NextFolder ==
    \/ \E c \in FolderInputs, root \in BOOLEAN, cpOk \in BOOLEAN :
          Idle /\ ExecStart(c, root, TRUE, cpOk)
    \/ \E fail \in {"none", "fs", "refresh"} : ExecTool(fail, FALSE)
    \/ ExecAfter(TRUE, FALSE, TRUE)
    \/ ExecDone

SpecFolder == InitWith(Disk0) /\ [][NextFolder]_vars

\* getEditorState followed by restoreCheckpointState of what it returned.
RoundTripCall == RestoreCall(getEditorState(saveOutgoingView(Sess)), TRUE)

\* Sessions built by opening, switching, closing, clearing, scrolling and
\* typing, one operation at a time, and captured and restored in between.
NextRound ==
    \/ \E p \in Paths : Idle /\ OpenFileCall(p, TRUE)
    \/ \E i \in 1..Len(pendingOpens) : OpenFileResume(i)
    \/ \E p \in Paths : Idle /\ TabClick(p)
    \/ \E p \in Paths : Idle /\ TabClose(p)
    \/ Idle /\ ClearEditor
    \/ \E v \in Views : Idle /\ Scroll(v)
    \/ Idle /\ Edit(TextX)
    \/ Idle /\ RoundTripCall
    \/ \E ok \in BOOLEAN : RestoreResume(ok)

SpecRound == Init /\ [][NextRound]_vars

\* read_file alone, on a.js holding a text about as long as the limit.
ReadSlack == 2
ReadLengths == {0, 1} \cup ((MAX_LENGTH - ReadSlack)..(MAX_LENGTH + ReadSlack))
LongText(n, k) == [i \in 1..n |-> IF i % k = 0 THEN "b" ELSE "a"]
ReadTexts == {LongText(n, k) : n \in ReadLengths, k \in {2, 3, 7}}
ReadInputs == {[name |-> "read_file", args |-> Args("a.js", <<>>, 0, NoArg)]}

InitRead == \E t \in ReadTexts : InitWith([Disk0 EXCEPT !["a.js"] = t])

NextRead ==
    \/ \E c \in ReadInputs, root \in BOOLEAN, logOk \in BOOLEAN :
          Idle /\ Len(models) = 0 /\ ExecStart(c, root, logOk, TRUE)
    \/ \E fail \in {"none", "fs"} : ExecTool(fail, FALSE)
    \/ \E logOk \in BOOLEAN : ExecAfter(TRUE, FALSE, logOk)
    \/ ExecDone

SpecRead == InitRead /\ [][NextRead]_vars

\* ------------------------------------------------------------------ claims

\* C1 (as claimed): in every reachable state activeFilePath is null or a key of
\* openFiles.
C1_ActivePathIsOpen ==
    activeFilePath = NULL \/ Has(openFiles, activeFilePath)

\* C2: an openFile step (the call, or its resumption after the content fetch),
\* for whatever path, leaves every path that was open before it open with the
\* same model, and openFiles never holds two entries for one path.
C2_OpenIdempotent ==
    [][ ((\E p \in Paths, f \in BOOLEAN : OpenFileCall(p, f))
          \/ (\E i \in 1..Len(pendingOpens) : OpenFileResume(i)))
        => /\ NoDuplicateKeys(openFiles')
           /\ \A q \in Paths :
                 Has(openFiles, q)
                 => Has(openFiles', q) /\ Get(openFiles', q).model = Get(openFiles, q).model
      ]_vars

\* Both paths open, the first one active again after openFile on it without
\* focus: only two models were ever created.
C2_Witness ==
    /\ Len(openFiles) = 2
    /\ Len(models) = 2
    /\ disposed = {}
    /\ focus = "none"
    /\ activeFilePath = openFiles[1].path
    /\ tabs = Keys(openFiles)

\* C3: closing the active tab activates the first remaining key in insertion
\* order, or, with none remaining, leaves no active path and an empty tab strip.
C3_CloseActive ==
    [][ \A p \in AllPaths :
          (activeFilePath = p /\ TabClose(p))
          => LET remaining == SelectSeq(openFiles, LAMBDA e : e.path # p)
             IN  IF Len(remaining) > 0
                 THEN activeFilePath' = remaining[1].path /\ tabs' = Keys(remaining)
                 ELSE activeFilePath' = NULL /\ tabs' = <<>> /\ openFiles' = <<>>
      ]_vars

\* Three documents were opened, one was closed, the first of the two left is
\* the active one.
C3_Witness ==
    /\ Len(openFiles) = 2
    /\ Len(models) = 3
    /\ Cardinality(disposed) = 1
    /\ 3 \in disposed
    /\ activeFilePath = openFiles[1].path
    /\ editorModel = openFiles[1].model
    /\ tabs = Keys(openFiles)

\* The paths installed when the restore call in flight completes with this
\* step: those acquired so far, and the last entry's if its model was created.
RestoredAtEnd ==
    pendingRestore.acquired
      \cup (IF Len(models') > Len(models)
            THEN {pendingRestore.state.openFiles[pendingRestore.i].path}
            ELSE {})

RestoreCheckpointCompletes ==
    pendingRestore.running /\ pendingRestore.discard /\ ~pendingRestore'.running

\* C5 (as claimed): restoreCheckpointState ends with openFiles holding exactly
\* the snapshot's paths.
C5_ExactlySnapshotPaths ==
    [][ RestoreCheckpointCompletes
        => KeySet(openFiles') = SnapPaths(pendingRestore.state) ]_vars

\* C5 (amended): restoreCheckpointState, run with no other operation in between,
\* ends with openFiles holding exactly the snapshot's paths whose handle
\* acquisition succeeded, whatever was open before; with an empty or null
\* snapshot it ends with no document.
C5_ExactlyAcquiredPaths ==
    [][ /\ RestoreCheckpointCompletes
           => /\ KeySet(openFiles') = RestoredAtEnd
              /\ RestoredAtEnd \subseteq SnapPaths(pendingRestore.state)
        /\ \A st \in SnapshotInputs :
             (RestoreCall(st, TRUE) /\ ~pendingRestore'.running) => openFiles' = <<>>
      ]_vars

\* A checkpoint restore at its last entry, after a document that the snapshot
\* does not list was open before and an earlier entry's acquisition failed.
C5_Witness ==
    /\ pendingRestore.running
    /\ pendingRestore.discard
    /\ pendingRestore.i = 2
    /\ pendingRestore.acquired = {}
    /\ disposed # {}
    /\ openFiles = <<>>

\* The text the call under way would be claimed to write: the file's lines, as
\* separated by newline characters, with the content as one more line at
\* max(0, line_number - 1).
InsertedByLines ==
    join(splice(split(disk[exec.args.filename], <<NL>>),
                insertionPoint(exec.args.line_number), exec.args.content),
         <<NL>>)

\* C4 (as claimed): an insert_content call that succeeds writes back the lines
\* L[0..k), the content, L[k..), with k = max(0, line_number - 1), the lines
\* being those that newline characters separate.
C4_InsertsWholeLine ==
    [][ (exec.pc = "tool" /\ exec.name = "insert_content"
           /\ exec'.pc = "after" /\ exec'.isSuccess)
        => disk'[exec.args.filename] = InsertedByLines ]_vars

\* C6 (as claimed): a root-required tool called with the project root absent
\* returns the fixed error and the call invokes no collaborator at all.
C6_GuardInvokesNothing ==
    (exec.pc = "returned" /\ ~exec.root /\ exec.name \in RootRequired)
    => (exec.result.error = NoProjectMsg /\ exec.calls = {})

\* C7 (as claimed): for every execute call that returned, the response carries
\* an error field if and only if the log entry was finalized as failed.
C7_ErrorIffLoggedFailed ==
    exec.pc = "returned"
    => ((exec.result.error # "none") <=> (exec.logEntry = "Error"))

\* C8 (as claimed): once the file-system change (or the terminal command) of a
\* refreshing tool succeeded and the file tree refresh was started, the call
\* returns a success result, whether or not the refresh throws.
C8_RefreshFailureNotSurfaced ==
    (exec.pc = "returned" /\ exec.name \in RefreshTools
       /\ "refreshFileTree" \in exec.calls)
    => exec.result.error = "none"

\* C9 (as claimed): every execute call that recorded a log entry ends by
\* returning, with that entry finalized exactly once; none ends by an error
\* escaping.
C9_RecordedEntryFinalized ==
    (exec.pc \in {"returned", "escaped"} /\ exec.logEntry # "none")
    => (exec.pc = "returned" /\ exec.finalized = 1)

\* C10 (as claimed): a tool call attempts a checkpoint save if and only if its
\* name is in the mutating trigger set and a document is open when it starts;
\* no later step of the call attempts one.
C10_CheckpointIff ==
    [][ /\ (exec.pc = "idle" /\ exec'.pc # "idle")
           => (("saveCheckpoint" \in exec'.calls)
               <=> (/\ exec'.name \in {"create_file", "delete_file", "rewrite_file",
                                       "rename_file", "create_folder", "delete_folder",
                                       "rename_folder", "insert_content"}
                    /\ Len(openFiles) > 0))
        /\ (exec.pc # "idle" /\ exec'.pc # "idle")
           => (("saveCheckpoint" \in exec'.calls) <=> ("saveCheckpoint" \in exec.calls))
      ]_vars

\* C10 (amended): a tool call attempts a checkpoint save if and only if its name
\* is in the mutating trigger set, the project root is present, the log entry
\* of the call was recorded, and a document is open when it starts; no later
\* step of the call attempts one.
C10_CheckpointIffRooted ==
    [][ /\ (exec.pc = "idle" /\ exec'.pc # "idle")
           => (("saveCheckpoint" \in exec'.calls)
               <=> (/\ exec'.name \in {"create_file", "delete_file", "rewrite_file",
                                       "rename_file", "create_folder", "delete_folder",
                                       "rename_folder", "insert_content"}
                    /\ exec'.root
                    /\ exec'.logEntry # "none"
                    /\ Len(openFiles) > 0))
        /\ (exec.pc # "idle" /\ exec'.pc # "idle")
           => (("saveCheckpoint" \in exec'.calls) <=> ("saveCheckpoint" \in exec.calls))
      ]_vars

\* insert_content on the open a.js has passed the interception: the checkpoint
\* save was attempted and the case of the switch is about to run.
C10_Witness ==
    /\ exec.pc = "tool"
    /\ exec.name = "insert_content"
    /\ exec.root
    /\ Len(openFiles) > 0
    /\ "saveCheckpoint" \in exec.calls

\* C11: a checkpoint save that fails does not fail the call: the call goes on
\* to the case of the switch with no error recorded, and the step of the case
\* ends as the switch alone decides from the session and the files, in the
\* same way as after a save that succeeded.
C11_CheckpointFailureSwallowed ==
    [][ /\ (exec.pc = "idle" /\ exec'.pc # "idle" /\ exec'.cp = "failed")
           => (exec'.pc = "tool" /\ exec'.isSuccess /\ exec'.result.error = "none")
        /\ (exec.pc = "tool" /\ exec'.pc = "after")
           => \E fail \in FailModes(exec.name), sel \in BOOLEAN :
                LET r == toolBody(exec.name, exec.args, Sess, disk, fail, sel)
                IN  /\ disk' = r.disk
                    /\ openFiles' = r.sess.openFiles
                    /\ models' = r.sess.models
                    /\ exec'.isSuccess = ~r.thrown
                    /\ exec'.result.error = r.msg
      ]_vars

\* create_file succeeded although the checkpoint save of the call had failed.
C11_Witness ==
    /\ exec.pc = "returned"
    /\ exec.cp = "failed"
    /\ exec.name = "create_file"
    /\ exec.isSuccess
    /\ exec.result.error = "none"
    /\ exec.logEntry = "Success"

\* C12: when the case of the switch throws, execute does not rethrow: the
\* response carries the thrown message wrapped as "Error executing tool
\* '<name>': <message>", the call is marked failed, the diagnostics check is
\* skipped (no marker query, no warning), and the log entry is finalized as
\* failed when the call returns; the call ends otherwise only if the log
\* update itself throws.
C12_ThrownErrorWrapped ==
    [][ /\ (exec.pc = "tool" /\ exec'.pc = "after"
              /\ \A fail \in FailModes(exec.name), sel \in BOOLEAN :
                    toolBody(exec.name, exec.args, Sess, disk, fail, sel).thrown)
           => /\ exec'.result.wrapped
              /\ \E fail \in FailModes(exec.name), sel \in BOOLEAN :
                    exec'.result.error
                      = toolBody(exec.name, exec.args, Sess, disk, fail, sel).msg
        /\ (exec'.pc \in {"after", "returned", "escaped"} /\ exec'.result.wrapped)
           => /\ ~exec'.isSuccess
              /\ ~exec'.result.warning
              /\ "getModelMarkers" \notin exec'.calls
              /\ exec'.pc = "returned" => exec'.logEntry = "Error" /\ exec'.finalized = 1
              /\ exec'.pc = "escaped" => "updateToolLog" \in exec'.calls
              /\ exec.pc = "after" => exec'.result = exec.result
      ]_vars

\* rewrite_file whose file lookup rejected has returned: the error is the
\* wrapped one and the entry is finalized as failed.
C12_Witness ==
    /\ exec.pc = "returned"
    /\ exec.name = "rewrite_file"
    /\ exec.root
    /\ exec.result.wrapped
    /\ exec.result.error = "not found"
    /\ exec.logEntry = "Error"

\* C13: the diagnostics check never turns a success into a failure: when
\* rewrite_file, insert_content or replace_selected_text succeeded, whatever
\* markers the editor reports, the call is finalized as successful and its
\* result differs from the tool's only by the warning appended to the message.
C13_DiagnosticsAdvisory ==
    [][ (exec.pc = "after" /\ exec.isSuccess /\ exec.result.error = "none"
           /\ exec.name \in {"rewrite_file", "insert_content", "replace_selected_text"}
           /\ exec'.pc = "returned")
        => /\ exec'.isSuccess
           /\ exec'.logEntry = "Success"
           /\ exec'.finalized = 1
           /\ exec'.result.error = "none"
           /\ exec'.result.wrapped = exec.result.wrapped
      ]_vars

\* insert_content succeeded, the editor reported an error marker for the file,
\* and the call was finalized as successful with the warning appended.
C13_Witness ==
    /\ exec.pc = "returned"
    /\ exec.name = "insert_content"
    /\ exec.result.warning
    /\ exec.result.error = "none"
    /\ exec.isSuccess
    /\ exec.logEntry = "Success"
    /\ "getModelMarkers" \in exec.calls

\* C14: a read_file that succeeds on a content of more than 30,000 characters
\* returns exactly its first 30,000 characters followed by the truncation
\* suffix; on a content of at most 30,000 characters it returns the content.
C14_ReadTruncatesAtLimit ==
    [][ (exec.pc = "tool" /\ exec.name = "read_file" /\ exec'.pc = "after"
           /\ exec'.isSuccess)
        => LET content == disk[exec.args.filename]
               got == exec'.payload
           IN  IF Len(content) > 30000
               THEN /\ Len(got) = 30000 + Len(TruncationSuffix)
                    /\ \A i \in 1..30000 : got[i] = content[i]
                    /\ \A i \in 1..Len(TruncationSuffix) :
                          got[30000 + i] = TruncationSuffix[i]
               ELSE got = content
      ]_vars

\* read_file has returned the truncated form of a content of 30,001 characters.
C14_Witness ==
    /\ exec.pc = "returned"
    /\ exec.name = "read_file"
    /\ exec.isSuccess
    /\ Len(disk["a.js"]) = 30001
    /\ Len(exec.payload) = 30003
    /\ exec.payload[30001] = NL

\* The buffer content of an open path.
BufferOf(p) == models[Get(openFiles, p).model]

\* C15: saveAllOpenFiles attempts the open documents one after another in Map
\* order, whether or not the writes before succeeded; when it ends every open
\* document was attempted, a failed write left the file as it was, and the
\* file of each document whose write succeeded holds its buffer content.
C15_SaveAllContinues ==
    [][ (pendingSave.running /\ pendingSave' # pendingSave)
        => LET p == openFiles[pendingSave.i].path
               ok == p \in pendingSave'.written
           IN  /\ pendingSave'.attempted = Append(pendingSave.attempted, p)
               /\ pendingSave'.attempted = SubSeq(Keys(openFiles), 1, pendingSave.i)
               /\ ok => disk'[p] = BufferOf(p)
               /\ ~ok => disk' = disk
               /\ ~pendingSave'.running
                  => /\ pendingSave'.attempted = Keys(openFiles)
                     /\ \A q \in pendingSave'.written : disk'[q] = BufferOf(q)
      ]_vars

\* saveAllOpenFiles has ended with two documents open: the write of the first
\* failed and its file still differs from its buffer, the second was attempted
\* all the same and its file holds the edited buffer.
C15_Witness ==
    /\ ~pendingSave.running
    /\ Len(openFiles) = 2
    /\ pendingSave.attempted = Keys(openFiles)
    /\ pendingSave.written = {openFiles[2].path}
    /\ BufferOf(openFiles[2].path) = TextX
    /\ disk[openFiles[2].path] = TextX
    /\ BufferOf(openFiles[1].path) = TextX
    /\ disk[openFiles[1].path] # TextX

\* C16: when a trigger tool is called with a document open and the store
\* works, the checkpoint persisted lists exactly the documents open before the
\* call, in order, with their buffer contents and the active path of that
\* moment, and it is persisted before the tool changes any file: no file has
\* changed when the save is over, and the step of the tool that changes a file
\* finds the checkpoint saved (or its save failed).
C16_CheckpointBeforeMutation ==
    [][ /\ (exec.pc = "idle" /\ exec'.pc # "idle" /\ exec'.cp = "saved")
           => /\ disk' = disk
              /\ exec'.pc = "tool"
              /\ Len(exec'.checkpoint.openFiles) = Len(openFiles)
              /\ \A i \in 1..Len(openFiles) :
                    /\ exec'.checkpoint.openFiles[i].path = openFiles[i].path
                    /\ exec'.checkpoint.openFiles[i].content = models[openFiles[i].model]
              /\ exec'.checkpoint.activeFile = activeFilePath
        /\ (exec.pc = "tool" /\ exec'.pc = "after" /\ disk' # disk
              /\ Len(openFiles) > 0
              /\ exec.name \in {"create_file", "delete_file", "rewrite_file", "rename_file",
                                "create_folder", "delete_folder", "rename_folder",
                                "insert_content"})
           => /\ exec.cp \in {"saved", "failed"}
              /\ exec.cp = "saved"
                 => /\ Len(exec.checkpoint.openFiles) = Len(openFiles)
                    /\ \A i \in 1..Len(openFiles) :
                          /\ exec.checkpoint.openFiles[i].path = openFiles[i].path
                          /\ exec.checkpoint.openFiles[i].content
                               = models[openFiles[i].model]
                    /\ exec.checkpoint.activeFile = activeFilePath
      ]_vars

\* rewrite_file has replaced a.js on disk and in its buffer; the checkpoint
\* saved by the call holds the buffer content from before the call.
C16_Witness ==
    /\ exec.pc = "after"
    /\ exec.name = "rewrite_file"
    /\ exec.cp = "saved"
    /\ exec.isSuccess
    /\ Len(exec.checkpoint.openFiles) = 1
    /\ exec.checkpoint.openFiles[1].path = "a.js"
    /\ exec.checkpoint.openFiles[1].content = TextAB
    /\ exec.checkpoint.activeFile = "a.js"
    /\ disk["a.js"] = TextX
    /\ Has(openFiles, "a.js")
    /\ models[Get(openFiles, "a.js").model] = TextX

\* The stored view state of an open path.
StoredView(files, p) == Get(files, p).viewState

\* C17: a switch away from the active document A stores the live view state of
\* that moment in A; no step changes the stored view state of an open document
\* that is not the active one; and a step that activates a document with a
\* stored view state leaves the editor with exactly that view state.
C17_ViewStateKeptAndRestored ==
    [][ \A q \in AllPaths :
          /\ (activeFilePath = q /\ Has(openFiles, q) /\ Has(openFiles', q)
                /\ activeFilePath' # q)
             => StoredView(openFiles', q) = liveView
          /\ (activeFilePath # q /\ Has(openFiles, q) /\ Has(openFiles', q))
             => StoredView(openFiles', q) = StoredView(openFiles, q)
          /\ (activeFilePath # q /\ Has(openFiles, q) /\ activeFilePath' = q
                /\ StoredView(openFiles, q) # ViewNull)
             => liveView' = StoredView(openFiles, q)
      ]_vars

\* Three documents open; a.js, left at the scrolled view state while the two
\* others were left at the default one, is active again with that view state.
C17_Witness ==
    /\ Len(openFiles) = 3
    /\ activeFilePath = "a.js"
    /\ editorModel = Get(openFiles, "a.js").model
    /\ StoredView(openFiles, "a.js") = MaxView
    /\ liveView = MaxView
    /\ StoredView(openFiles, "d/b") = DefaultView
    /\ StoredView(openFiles, "e/b") = DefaultView

\* C18 (as claimed): when closing the active document leaves another one, that
\* one is activated and the input focus stays where it was.
C18_CloseKeepsFocus ==
    [][ \A p \in Paths :
          (activeFilePath = p /\ Has(openFiles, p) /\ Len(openFiles) > 1 /\ TabClose(p))
          => (activeFilePath' = nextFile(openFiles') /\ focus' = focus)
      ]_vars

\* C19: after a rewrite_file or an insert_content that succeeded, whether or
\* not the file was open and whatever its buffer held, the file is open, its
\* model is live, and its buffer holds the text the call wrote to the file.
C19_BufferEqualsWritten ==
    [][ (exec.pc = "tool" /\ exec.name \in {"rewrite_file", "insert_content"}
           /\ exec'.pc = "after" /\ exec'.isSuccess)
        => LET f == exec.args.filename
               written == IF exec.name = "rewrite_file" THEN exec.args.content
                          ELSE insertContent(disk[f], exec.args.line_number,
                                             exec.args.content)
           IN  /\ disk'[f] = written
               /\ Has(openFiles', f)
               /\ Get(openFiles', f).model \notin disposed'
               /\ models'[Get(openFiles', f).model] = written
      ]_vars

\* insert_content succeeded on a.js, which was open with an unsaved buffer
\* (the checkpoint of the call kept it): the same model now holds the text
\* written to the file.
C19_Witness ==
    /\ exec.pc = "after"
    /\ exec.name = "insert_content"
    /\ exec.isSuccess
    /\ exec.cp = "saved"
    /\ exec.checkpoint.openFiles[1].path = "a.js"
    /\ exec.checkpoint.openFiles[1].content = TextX
    /\ Len(models) = 1
    /\ Len(disk["a.js"]) = 6
    /\ models[Get(openFiles, "a.js").model] = disk["a.js"]

\* C20 (as claimed): after a create_file that succeeded the file is open and
\* its buffer holds the content given, also when the file was already open
\* with another buffer content.
C20_CreateReflected ==
    [][ (exec.pc = "tool" /\ exec.name = "create_file"
           /\ exec'.pc = "after" /\ exec'.isSuccess)
        => LET f == exec.args.filename
           IN  /\ disk'[f] = exec.args.content
               /\ Has(openFiles', f)
               /\ models'[Get(openFiles', f).model] = exec.args.content
      ]_vars

\* C21 (as claimed): after a delete_file, delete_folder, rename_file or
\* rename_folder that succeeded, no open document has a path the call removed:
\* every file that existed before the call and does not exist after it is
\* closed.
C21_RemovedPathsClosed ==
    [][ (exec.pc = "tool" /\ exec'.pc = "after" /\ exec'.isSuccess
           /\ exec.name \in {"delete_file", "delete_folder", "rename_file",
                             "rename_folder"})
        => \A q \in AllPaths :
              (fileExists(disk, q) /\ ~fileExists(disk', q)) => ~Has(openFiles', q)
      ]_vars

\* C22 (as claimed): a call whose response carries an error field, the guard's
\* among them, never runs the marker query and never gets the diagnostics
\* warning appended.
C22_DiagnosticsOnlyOnSuccess ==
    (exec.pc \in {"returned", "escaped"} /\ exec.result.error # "none")
    => ("getModelMarkers" \notin exec.calls /\ ~exec.result.warning)

\* C23 (as claimed): a restoreCheckpointState of the state getEditorState just
\* returned, with every handle acquired and nothing in between, ends in a
\* session with the same paths in the same order, the same buffer content and
\* view state for each path, and the same active path.
C23_RoundTrip ==
    [][ /\ (RoundTripCall /\ ~pendingRestore'.running)
           => getEditorState(Sess') = getEditorState(saveOutgoingView(Sess))
        /\ (RestoreCheckpointCompletes /\ RestoredAtEnd = SnapPaths(pendingRestore.state))
           => getEditorState(Sess') = pendingRestore.state
      ]_vars

\* C24 (as claimed): in every reachable state every model ever created for a
\* document is the model of an entry of openFiles or has been disposed.
C24_NoBufferLeaked ==
    \A m \in 1..Len(models) :
        m \in disposed \/ \E i \in 1..Len(openFiles) : openFiles[i].model = m

\* C25 (as claimed): in every reachable state the editor is writable only if a
\* document is active and the editor is bound to the model of that document,
\* which is not disposed.
C25_WritableOnlyOnLiveDocument ==
    ~readOnly
    => /\ activeFilePath # NULL
       /\ Has(openFiles, activeFilePath)
       /\ editorModel = Get(openFiles, activeFilePath).model
       /\ editorModel \notin disposed

====
